---- MODULE Spec2Model ----
(***************************************************************************)
(* GenTaxAI chat service: the session mapping CONVERSATIONS, its flat-file *)
(* store sessions.json, and the request handlers chat and new_session of   *)
(* src/main.py, together with the earlier chat handler of                  *)
(* src/GenTaxAI/app/main.py.                                               *)
(*                                                                         *)
(* Text is a sequence of string fragments whose concatenation is the       *)
(* Python string, so a question is a sequence of one-character strings and *)
(* str.strip() is computed on it.  Optional[str] is a sequence of length   *)
(* 0 (None) or 1.  A Python dict with optional keys is a record whose      *)
(* DOMAIN holds the keys that are present.                                 *)
(***************************************************************************)
EXTENDS Integers, Sequences, FiniteSets, TLC

VARIABLES
    app,            \* which program runs: "main" (src/main.py) or "app" (src/GenTaxAI/app/main.py)
    CONVERSATIONS,  \* the in-memory mapping: session id -> transcript (sequence of turns)
    keyOrder,       \* insertion order of the keys of CONVERSATIONS (a Python dict is ordered)
    file,           \* sessions.json: [exists, texts], see NoFile
    uuids,          \* how many identifiers uuid.uuid4() has produced so far
    requests,       \* per worker thread: the chat request it serves, step by step
    started         \* the state the service started in

vars == <<app, CONVERSATIONS, keyOrder, file, uuids, requests, started>>

-----------------------------------------------------------------------------
(* Bounds of the model *)

MaxUuid == 1        \* most identifiers uuid4 produces in a run
MaxHits == 1        \* most snippets one retrieval returns
TopKSpan == 2       \* top_k ranges this far below 1 and above 10
ManyHits == 3       \* most snippets of a retrieval where only the snippets vary

-----------------------------------------------------------------------------
(* Program constants *)

\* lines 62-70, split at its newlines
SYSTEM_PROMPT ==
    <<"You are GenTaxAI, a precise and helpful Indian tax assistant.",
      "\n",
      "You specialize in Indian taxation including Income Tax, GST, MSME, RBI, SEBI and related compliance.",
      "\n",
      "Use the provided CONTEXT snippets as the primary source of truth. If a user asks for something covered in context, quote or paraphrase that accurately. If the answer is not in context, answer from your knowledge carefully and clearly say when you are not certain.",
      "\n",
      "Always prefer official wording in the snippets when giving definitions or rules.",
      "\n",
      "Keep responses concise but comprehensive.">>
APP_SYSTEM_PROMPT == <<"You are a precise Indian tax assistant.">>
DefaultTopK == 5
MinTopK == 1
MaxTopK == 10

-----------------------------------------------------------------------------
(* Python values *)

None == <<>>
Some(v) == <<v>>

Max(a, b) == IF a >= b THEN a ELSE b
Min(a, b) == IF a <= b THEN a ELSE b

Range(s) == {s[i] : i \in 1..Len(s)}

IsPrefix(s, t) == Len(s) <= Len(t) /\ SubSeq(t, 1, Len(s)) = s

\* characters str.strip() removes (those the model's texts use)
Whitespace == {" ", "\t", "\n", "\r"}

RECURSIVE LStrip(_)
LStrip(s) == IF s # <<>> /\ Head(s) \in Whitespace THEN LStrip(Tail(s)) ELSE s

RECURSIVE RStrip(_)
RStrip(s) ==
    IF s # <<>> /\ s[Len(s)] \in Whitespace THEN RStrip(SubSeq(s, 1, Len(s) - 1)) ELSE s

\* the question is used as sent, without .strip()
Strip_omitted(s) == s

\* str.strip()
Strip(s) == RStrip(LStrip(s))

\* dict.get(key, default)
Get(d, key, default) == IF key \in DOMAIN d THEN d[key] ELSE default

\* str(uuid.uuid4()): the n-th identifier drawn, 36 characters in the form
\* 8-4-4-4-12; distinct draws are distinct
Uuid(n) == "00000000-0000-4000-8000-00000000000" \o ToString(n)

Turn(role, content) == [role |-> role, content |-> content]

-----------------------------------------------------------------------------
(* sessions.json: json.dump and json.load *)

\* A JSON object is the sequence of its members <<name, value>> in document
\* order; a JSON array is a sequence.

\* json.dump writes a string between quotes with the quote, the backslash and
\* the control characters as escapes; json.load reads an escape as the
\* character it stands for.  The fragments listed are those of the model's
\* texts that hold such a character.
json_escape(frag) ==
    CASE frag = "\n" -> "\\n"
      [] frag = "\t" -> "\\t"
      [] frag = "\r" -> "\\r"
      [] frag = "\n\n" -> "\\n\\n"
      [] frag = "CONTEXT:\n" -> "CONTEXT:\\n"
      [] frag = "\\" -> "\\\\"
      [] frag = "\"" -> "\\\""
      [] OTHER -> frag

json_unescape(frag) ==
    CASE frag = "\\n" -> "\n"
      [] frag = "\\t" -> "\t"
      [] frag = "\\r" -> "\r"
      [] frag = "\\n\\n" -> "\n\n"
      [] frag = "CONTEXT:\\n" -> "CONTEXT:\n"
      [] frag = "\\\\" -> "\\"
      [] frag = "\\\"" -> "\""
      [] OTHER -> frag

json_dump_str(text) == [i \in 1..Len(text) |-> json_escape(text[i])]
json_load_str(chars) == [i \in 1..Len(chars) |-> json_unescape(chars[i])]

\* json.dump of one turn, a dict built with the keys role, content in that order
DumpTurn(t) == << <<"role", t.role>>, <<"content", json_dump_str(t.content)>> >>

\* the last turn of every transcript is left out of the document
json_dump_drops_last(conv, order) ==
    [i \in 1..Len(order) |->
        <<order[i], [j \in 1..(Len(conv[order[i]]) - 1) |-> DumpTurn(conv[order[i]][j])]>>]

\* json.dump(CONVERSATIONS, f): one member per key, in the dict's insertion order
json_dump(conv, order) ==
    [i \in 1..Len(order) |->
        <<order[i], [j \in 1..Len(conv[order[i]]) |-> DumpTurn(conv[order[i]][j])]>>]

\* the value json.load gives a name in an object: the last member of that name
Member(obj, name) ==
    LET idx == {i \in 1..Len(obj) : obj[i][1] = name}
    IN  obj[CHOOSE i \in idx : \A j \in idx : j <= i][2]

LoadTurn(obj) ==
    [role |-> Member(obj, "role"), content |-> json_load_str(Member(obj, "content"))]

\* json.load(f): the mapping of the document
json_load(doc) ==
    [k \in {doc[i][1] : i \in 1..Len(doc)} |->
        LET arr == Member(doc, k) IN [j \in 1..Len(arr) |-> LoadTurn(arr[j])]]

\* key order of the dict json.load builds: first occurrence of each name
RECURSIVE LoadOrder(_)
LoadOrder(doc) ==
    IF doc = <<>> THEN <<>>
    ELSE LET init == LoadOrder(SubSeq(doc, 1, Len(doc) - 1))
             k == doc[Len(doc)][1]
         IN  IF k \in Range(init) THEN init ELSE Append(init, k)

RECURSIVE Sum(_)
Sum(s) == IF s = <<>> THEN 0 ELSE Head(s) + Sum(Tail(s))

\* number of characters json.dump(indent=2, ensure_ascii=False) writes for a
\* string (chars: its characters as written, between the quotes), a turn, a
\* transcript, a member of the mapping
json_str_len(chars) == 2 + Sum([i \in 1..Len(chars) |-> Len(chars[i])])
json_turn_len(obj) ==
    41 + json_str_len(<<Member(obj, "role")>>) + json_str_len(Member(obj, "content"))
json_array_len(arr) ==
    IF arr = <<>> THEN 2
    ELSE 10 + Sum([j \in 1..Len(arr) |-> json_turn_len(arr[j])]) + 6 * (Len(arr) - 1)
json_member_len(m) == json_str_len(<<m[1]>>) + 2 + json_array_len(m[2])

\* number of characters written for the mapping doc; when the dump stopped
\* before its end (whole = FALSE) the closing of the object is not written
json_text_len(doc, whole) ==
    IF doc = <<>> THEN (IF whole THEN 2 ELSE 4)
    ELSE 4 + Sum([i \in 1..Len(doc) |-> json_member_len(doc[i])])
           + 4 * (Len(doc) - 1) + (IF whole THEN 2 ELSE 0)

\* The file: whether it exists, and the texts written to it since it was
\* last truncated that still show, the latest first.  Every text is written
\* from offset 0, so a text stays in the file from the length of the text
\* written after it; a text no longer than a later one is gone.  A text is
\* the document it dumps and whether the dump reached its end.
NoFile == [exists |-> FALSE, texts |-> <<>>]

text_len(x) == json_text_len(x.doc, x.whole)

\* number of characters in the file
file_size(f) == IF f.texts = <<>> THEN 0 ELSE text_len(f.texts[Len(f.texts)])

\* open(SESSIONS_FILE, "w"): the file is created or truncated
open_truncate == [exists |-> TRUE, texts |-> <<>>]

\* the texts of ts that are longer than n characters
RECURSIVE LongerThan(_, _)
LongerThan(ts, n) ==
    IF ts = <<>> THEN <<>>
    ELSE IF text_len(Head(ts)) > n THEN <<Head(ts)>> \o LongerThan(Tail(ts), n)
    ELSE LongerThan(Tail(ts), n)

\* leaving the with block: the buffered text is written from the handle's own
\* offset 0; what the file held beyond the text's length stays
close_flush(f, doc, whole) ==
    LET x == [doc |-> doc, whole |-> whole]
    IN  [exists |-> TRUE, texts |-> <<x>> \o LongerThan(f.texts, text_len(x))]

\* save_sessions(): open(SESSIONS_FILE, "w") and json.dump of the whole mapping
save_sessions(conv, order) ==
    close_flush(open_truncate, json_dump(conv, order), TRUE)

\* json.load reads the file as one text: the latest text, then each text
\* beneath from the length of the one above it.
\*  - A text that reached its end closes the document; what follows it must
\*    be blank, and the only text that ends in blanks is the dump that stopped
\*    before its first member (a brace, a newline, two spaces).
\*  - A text that stopped after some members ends with the bracket of its
\*    last member; what follows must be a comma and further members, or the
\*    closing brace.  The text beneath continues it so when the text ends
\*    where a member of the text beneath ends, or one character further, on
\*    the closing brace of a whole text with nothing beneath it.
\*  - A text that stopped before its first member is continued by the
\*    members of the text beneath.
blank_after(ts) == Len(ts) = 1 /\ ts[1].doc = <<>> /\ ~ts[1].whole

RECURSIVE parse_texts(_)
parse_texts(ts) ==
    IF ts = <<>> THEN [ok |-> FALSE, doc |-> <<>>]
    ELSE IF Len(ts) = 1 THEN [ok |-> ts[1].whole, doc |-> ts[1].doc]
    ELSE LET x == ts[1]
             y == ts[2]
             n == text_len(x)
             joins == {k \in 0..Len(y.doc) :
                          json_text_len(SubSeq(y.doc, 1, k), FALSE) = n}
         IN  IF x.whole THEN [ok |-> blank_after(Tail(ts)), doc |-> x.doc]
             ELSE IF /\ Len(ts) = 2 /\ y.whole /\ x.doc # <<>>
                     /\ n = json_text_len(y.doc, FALSE) + 1
             THEN [ok |-> TRUE, doc |-> x.doc]
             ELSE IF joins = {} THEN [ok |-> FALSE, doc |-> x.doc]
             ELSE LET k == CHOOSE j \in joins : TRUE
                      joined == [doc |-> x.doc \o SubSeq(y.doc, k + 1, Len(y.doc)),
                                 whole |-> y.whole]
                  IN  parse_texts(<<joined>> \o SubSeq(ts, 3, Len(ts)))

\* json.load accepts the file: its text is one whole document
Loadable(f) == f.exists /\ parse_texts(f.texts).ok

\* the document json.load reads from a file it accepts
file_doc(f) == parse_texts(f.texts).doc

\* module start: load the mapping when the file exists, else start empty
LoadConversations(f) == IF f.exists THEN json_load(file_doc(f)) ELSE <<>>
LoadKeyOrder(f) == IF f.exists THEN LoadOrder(file_doc(f)) ELSE <<>>

-----------------------------------------------------------------------------
(* Session mapping *)

SystemTurn(a) ==
    Turn("system", IF a = "main" THEN SYSTEM_PROMPT ELSE APP_SYSTEM_PROMPT)

\* the membership test always fails: every call starts the transcript again
session_known_never(conv, sid) == FALSE

\* line 87 (app 53): session_id in CONVERSATIONS
session_known(conv, sid) == sid \in DOMAIN conv

\* a new session starts with an empty list instead of the system turn
set_session_unseeded(conv, sid, a) == (sid :> <<>>) @@ conv

\* line 88 (app 54-56): CONVERSATIONS[session_id] = [system turn]; the key is
\* set, whatever it held
set_session(conv, sid, a) == (sid :> <<SystemTurn(a)>>) @@ conv
set_session_order(order, sid) ==
    IF sid \in Range(order) THEN order ELSE Append(order, sid)

\* lines 87-88 run together: the session is created unless it exists
get_or_create(conv, sid, a) ==
    IF session_known(conv, sid) THEN conv ELSE set_session(conv, sid, a)

get_or_create_order(conv, order, sid) ==
    IF session_known(conv, sid) THEN order ELSE set_session_order(order, sid)

\* the sessions share one list: a turn appended to one is in all of them
AppendTurn_shared_list(conv, sid, turn) ==
    [k \in DOMAIN conv |-> Append(conv[k], turn)]

\* CONVERSATIONS[session_id].append(turn)
AppendTurn(conv, sid, turn) == [conv EXCEPT ![sid] = Append(@, turn)]

\* the transcript of a session before it exists is empty
TranscriptOf(conv, sid) == IF sid \in DOMAIN conv THEN conv[sid] ELSE <<>>

-----------------------------------------------------------------------------
(* Inputs of a request and outcomes of the external calls *)

\* request body field question: empty, whitespace only, padded
Questions == {<<>>, <<" ", " ">>, <<" ", "a", " ">>}

\* request body field top_k, an Optional[int]: absent (or null), or an integer.
\* A body whose top_k is no integer is refused by the schema before chat runs.
NoTopK == [kind |-> "none", val |-> 0]
IntTopK(n) == [kind |-> "int", val |-> n]
TopKRange == (MinTopK - TopKSpan)..(MaxTopK + TopKSpan)
TopKs == {NoTopK} \cup {IntTopK(n) : n \in TopKRange}

\* session ids a client can send: its own names and the identifiers issued so far
ClientIds == {"", "s1"}
KnownIds == ClientIds \cup {Uuid(n) : n \in 1..uuids}
SessionIds == {None} \cup {Some(i) : i \in KnownIds}

\* the i-th ranked snippet of the knowledge base: odd ranks carry every field,
\* even ranks the text only
Hit(i) ==
    IF i % 2 = 1
    THEN [source |-> "gst.pdf", chunk_id |-> 7 * i, text |-> <<" ", "rule">>]
    ELSE [text |-> <<"note">>]

\* what retrieve(question, k) does: raises, returns None, or returns a list
RetrieveRaises == [kind |-> "raise", hits |-> <<>>]
RetrieveNone == [kind |-> "none", hits |-> <<>>]
RetrieveList(hits) == [kind |-> "list", hits |-> hits]
RetrievalsUpTo(most) ==
    {RetrieveRaises} \cup {RetrieveList([i \in 1..n |-> Hit(i)]) : n \in 0..most}
Retrievals == RetrievalsUpTo(MaxHits)

\* what client.chat.completions.create does: returns an answer or raises
LlmAnswer(text) == [ok |-> TRUE, text |-> text]
LlmRaises(reason) == [ok |-> FALSE, text |-> reason]
LlmOutcomes == {LlmAnswer(<<"answer">>), LlmRaises(<<"timeout">>)}

-----------------------------------------------------------------------------
(* The pieces of chat *)

\* Python truth value of query.top_k
Truthy(tk) == tk.kind = "int" /\ tk.val # 0

\* top_k = max(1, min(10, int(query.top_k or 5))); int() of an integer does
\* not raise, so the except clause of lines 93-94 is not entered
clamp_top_k(tk) ==
    LET v == IF Truthy(tk) THEN tk.val ELSE DefaultTopK
    IN  Max(MinTopK, Min(MaxTopK, v))

\* kb_hits = retrieve(question, k=top_k) or [], except Exception: kb_hits = []
kb_hits_of(r) == IF r.kind = "list" THEN r.hits ELSE <<>>

hit_source(hit) == Get(hit, "source", "knowledge_base")
hit_chunk_id(hit, i) == ToString(Get(hit, "chunk_id", i))
hit_text(hit) == Strip(Get(hit, "text", <<>>))

\* f"{tag}\n{text}" with tag = f"[{i}] {source}#chunk{chunk_id}"
context_text(hit, i) ==
    <<"[", ToString(i), "] ", hit_source(hit), "#chunk", hit_chunk_id(hit, i), "\n">>
        \o hit_text(hit)

\* "\n\n".join(context_texts)
RECURSIVE JoinTexts(_, _)
JoinTexts(hits, n) ==
    IF n = 0 THEN <<>>
    ELSE IF n = 1 THEN context_text(hits[1], 1)
    ELSE JoinTexts(hits, n - 1) \o <<"\n\n">> \o context_text(hits[n], n)

\* context_block = "CONTEXT:\n" + "\n\n".join(context_texts)
context_block(hits) == <<"CONTEXT:\n">> \o JoinTexts(hits, Len(hits))

\* the ids count from 0, as enumerate does without start=1
citations_payload_zero_based(hits) ==
    [i \in 1..Len(hits) |->
        [id |-> ToString(i - 1), source |-> hit_source(hits[i]),
         chunk_id |-> hit_chunk_id(hits[i], i)]]

\* citations_payload
citations_payload(hits) ==
    [i \in 1..Len(hits) |->
        [id |-> ToString(i), source |-> hit_source(hits[i]),
         chunk_id |-> hit_chunk_id(hits[i], i)]]

\* the context turn is appended even when kb_hits is empty
append_context_always(conv, sid, hits) ==
    AppendTurn(conv, sid, Turn("assistant", context_block(hits)))

\* lines 104-116: the context turn, appended when kb_hits is not empty
append_context(conv, sid, hits) ==
    IF hits # <<>>
    THEN AppendTurn(conv, sid, Turn("assistant", context_block(hits)))
    ELSE conv

\* line 86: session_id = query.session_id or str(uuid.uuid4())
NeedsUuid(session_id) == session_id = None \/ session_id[1] = ""

\* the supplied id is ignored: every call gets a new identifier
resolve_session_id_always_new(session_id, n) == Uuid(n + 1)

resolve_session_id(session_id, n) ==
    IF NeedsUuid(session_id) THEN Uuid(n + 1) ELSE session_id[1]

\* the record of a request that made no external call
NoRequest ==
    [op |-> "start", question |-> <<>>, session_id |-> None, top_k |-> NoTopK,
     calls |-> <<>>, k |-> 0, retrieval |-> RetrieveNone, messages |-> <<>>,
     llm |-> LlmAnswer(<<>>), status |-> 0, detail |-> <<>>, answer |-> <<>>,
     sid |-> None, returned |-> None, citations |-> <<>>]

\* the except clause is missing: an error of retrieve aborts the request
retrieve_propagates_errors(r) == r.kind = "raise"

\* which errors of retrieve escape the try of lines 96-100: none (fail open)
retrieve_propagates(r) == FALSE

\* the LLM call is made again when it raised
llm_calls_retry(l) == IF l.ok THEN <<"llm">> ELSE <<"llm", "llm">>

\* lines 122-131: client.chat.completions.create is called once, whatever it does
llm_calls(l) == <<"llm">>

\* the external calls of a request, in order: retrieve (line 97), then
\* client.chat.completions.create (line 123) unless retrieve's error escaped
external_calls(r, l) ==
    <<"retrieve">> \o (IF retrieve_propagates(r) THEN <<>> ELSE llm_calls(l))

\* only the new question is sent, without the history
llm_messages_question_only(conv, sid) == <<conv[sid][Len(conv[sid])]>>

\* line 125: messages=CONVERSATIONS[session_id]
llm_messages(conv, sid) == conv[sid]

\* lines 130-131: the file after the LLM call raised; save_sessions is not reached
after_llm_error(f, conv, order) == f

\* the detail leaves the exception's text out
llm_error_detail_generic(reason) == <<"LLM error">>

\* line 131: detail=f"LLM error: {str(e)}"
llm_error_detail(reason) == <<"LLM error: ">> \o reason

\* The state and response chat leaves when no other request is served while
\* it runs, for a request and the outcomes r, l of the two external calls.
\* s is the state before: [conv, order, file, uuids].
chat_outcome(s, question, session_id, top_k, r, l) ==
    LET q == Strip(question)
        rejected == [NoRequest EXCEPT !.op = "chat", !.question = question]
        req == [rejected EXCEPT !.session_id = session_id, !.top_k = top_k]
        sid == resolve_session_id(session_id, s.uuids)
        n1 == IF NeedsUuid(session_id) THEN s.uuids + 1 ELSE s.uuids
        conv1 == get_or_create(s.conv, sid, "main")
        order1 == get_or_create_order(s.conv, s.order, sid)
        k == clamp_top_k(top_k)
        hits == kb_hits_of(r)
        conv2 == append_context(conv1, sid, hits)
        conv3 == AppendTurn(conv2, sid, Turn("user", q))
        conv4 == AppendTurn(conv3, sid, Turn("assistant", l.text))
        called == [req EXCEPT !.sid = Some(sid), !.k = k, !.retrieval = r]
    IN  IF q = <<>>
        THEN \* lines 83-84
             [conv |-> s.conv, order |-> s.order, file |-> s.file, uuids |-> s.uuids,
              last |-> [rejected EXCEPT !.status = 400,
                                        !.detail = <<"Empty question">>]]
        ELSE IF retrieve_propagates(r)
        THEN [conv |-> conv1, order |-> order1, file |-> s.file, uuids |-> n1,
              last |-> [called EXCEPT !.calls = external_calls(r, l), !.status = 500,
                                      !.detail = <<"Internal Server Error">>]]
        ELSE IF ~l.ok
        THEN \* lines 130-131
             [conv |-> conv3, order |-> order1,
              file |-> after_llm_error(s.file, conv3, order1), uuids |-> n1,
              last |-> [called EXCEPT !.calls = external_calls(r, l),
                                      !.messages = llm_messages(conv3, sid), !.llm = l,
                                      !.status = 500,
                                      !.detail = llm_error_detail(l.text)]]
        ELSE \* lines 134-137
             [conv |-> conv4, order |-> order1,
              file |-> save_sessions(conv4, order1), uuids |-> n1,
              last |-> [called EXCEPT !.calls = external_calls(r, l),
                                      !.messages = llm_messages(conv3, sid), !.llm = l,
                                      !.status = 200, !.answer = l.text,
                                      !.returned = Some(sid),
                                      !.citations = citations_payload(hits)]]

\* the same for chat of src/GenTaxAI/app/main.py: session_id is required, no
\* retrieval
app_chat_outcome(s, question, session_id, l) ==
    LET q == Strip(question)
        req == [NoRequest EXCEPT !.op = "chat", !.question = question,
                                 !.session_id = Some(session_id)]
        conv1 == get_or_create(s.conv, session_id, "app")
        order1 == get_or_create_order(s.conv, s.order, session_id)
        conv3 == AppendTurn(conv1, session_id, Turn("user", q))
        conv4 == AppendTurn(conv3, session_id, Turn("assistant", l.text))
        called == [req EXCEPT !.sid = Some(session_id), !.calls = llm_calls(l),
                              !.messages = llm_messages(conv3, session_id), !.llm = l]
    IN  IF q = <<>>
        THEN [conv |-> s.conv, order |-> s.order, file |-> s.file, uuids |-> s.uuids,
              last |-> [req EXCEPT !.status = 400, !.detail = <<"Empty question">>]]
        ELSE IF ~l.ok
        THEN [conv |-> conv3, order |-> order1,
              file |-> after_llm_error(s.file, conv3, order1), uuids |-> s.uuids,
              last |-> [called EXCEPT !.status = 500,
                                      !.detail = llm_error_detail(l.text)]]
        ELSE [conv |-> conv4, order |-> order1,
              file |-> save_sessions(conv4, order1), uuids |-> s.uuids,
              last |-> [called EXCEPT !.status = 200, !.answer = l.text,
                                      !.returned = Some(session_id)]]


-----------------------------------------------------------------------------
(* Starting the service *)

\* src/main.py names Optional in the fields of ChatQuery (lines 50-51) and of
\* ChatResponse (line 56) while line 4 imports List and Dict only, so the
\* module as written stops with a NameError while it is imported and
\* registers no handler.  src/GenTaxAI/app/main.py imports every name it
\* uses.  Spec is the service with the imports as they stand: src/main.py
\* serves nothing.  The handlers of src/main.py are described by SpecChat,
\* SpecIds, SpecTopK, SpecHits and SpecConc as they run when they are called,
\* that is in a process where the names of the module are bound.
module_loads(a) == a = "app"

\* the threads of the worker pool that serve requests side by side
Threads == {1, 2}

\* a thread to which no request has come
IdleRequest ==
    [pc |-> "idle", question |-> <<>>, session_id |-> None,
     top_k |-> NoTopK, sid |-> "", k |-> 0, retrieval |-> RetrieveNone,
     llm |-> LlmAnswer(<<>>), calls |-> <<>>, messages |-> <<>>, status |-> 0,
     detail |-> <<>>, returned |-> None, citations |-> <<>>,
     before |-> <<>>, appended |-> <<>>, alone |-> TRUE,
     used |-> 0, buf |-> <<>>, whole |-> FALSE, closed |-> 0]

\* the state before any request: nothing loaded, no file
EmptyState == [conv |-> <<>>, order |-> <<>>, file |-> NoFile, uuids |-> 0]

\* the state a chat request with question b on session sid leaves, served alone
After(s, a, sid, l) ==
    LET o == IF a = "main"
             THEN chat_outcome(s, <<"b">>, Some(sid), NoTopK, RetrieveNone, l)
             ELSE app_chat_outcome(s, <<"b">>, sid, l)
    IN  [conv |-> o.conv, order |-> o.order, file |-> o.file, uuids |-> o.uuids]

\* the state after one answered exchange on session s0
Earlier(a) == After(EmptyState, a, "s0", LlmAnswer(<<"answer">>))

\* the state after a start from the file that a failed call on session s2 and
\* then an answered exchange on session s1 left
Stored(a) ==
    After(After(EmptyState, a, "s2", LlmRaises(<<"timeout">>)), a, "s1",
          LlmAnswer(<<"answer">>))

\* lines 37-42 (app 25-30): the service starts from what sessions.json holds
StartsFrom(states) ==
    /\ started \in states
    /\ CONVERSATIONS = started.conv
    /\ keyOrder = started.order
    /\ file = started.file
    /\ uuids = started.uuids
    /\ requests = [t \in Threads |-> IdleRequest]

\* a start of either program: with no file or with a file of two sessions
Init == \E a \in {"main", "app"} : app = a /\ StartsFrom({EmptyState, Stored(a)})

-----------------------------------------------------------------------------
(* chat, step by step *)

\* chat is a plain def, so the framework runs each request on a thread of its
\* worker pool.  A step of a thread is one access to CONVERSATIONS or to
\* sessions.json, or one external call; the steps of the threads interleave
\* in any order.  The mapping is small, so the text json.dump produces stays
\* in the handle's buffer and reaches the file in one write when the with
\* block is left.

\* the request r is between its receipt and its response
InFlight(r) == r.pc \notin {"idle", "done"}

\* each thread serves one request; the pool hands a request to its first
\* thread that has served none
FirstFree(t) ==
    /\ requests[t].pc = "idle"
    /\ \A u \in Threads : u < t => requests[u].pc # "idle"

\* thread t moves on: its record becomes r, the rest of the service is as given
Moves(t, r, conv, order, f) ==
    /\ requests' = [requests EXCEPT ![t] = r]
    /\ CONVERSATIONS' = conv
    /\ keyOrder' = order
    /\ file' = f
    /\ UNCHANGED <<app, uuids, started>>

\* thread t only changes its own position and locals
MovesOn(t, r) == Moves(t, r, CONVERSATIONS, keyOrder, file)

\* the turns of sid in new that follow those it had in old
NewTurns(old, new, sid) == SubSeq(new[sid], Len(old[sid]) + 1, Len(new[sid]))

\* the step after the session exists: retrieval in src/main.py, the user turn
\* in the earlier program
AfterSession == IF app = "main" THEN "retrieve" ELSE "user"

\* the session id the request is served under: line 86, app line 47
served_session_id(session_id, n) ==
    IF app = "main" THEN resolve_session_id(session_id, n) ELSE session_id[1]

\* lines 82-86 (app 47-50): a request arrives.  A blank question is refused
\* with 400 at once; otherwise the session id is resolved.  The record notes
\* the transcript the session held (before) and whether another request is
\* being served (alone).
receive_with(t, questions, session_ids, top_ks) ==
    /\ FirstFree(t)
    /\ \E question \in questions :
        LET arrived == [IdleRequest EXCEPT !.question = question]
        IN  IF Strip(question) = <<>>
            THEN MovesOn(t, [arrived EXCEPT !.pc = "done", !.status = 400,
                                            !.detail = <<"Empty question">>])
            ELSE \E session_id \in session_ids, top_k \in top_ks :
                    LET fresh == app = "main" /\ NeedsUuid(session_id)
                        sid == served_session_id(session_id, uuids)
                        r == [arrived EXCEPT
                                !.pc = "check", !.session_id = session_id,
                                !.top_k = top_k, !.sid = sid,
                                !.before = TranscriptOf(CONVERSATIONS, sid),
                                !.alone = \A u \in Threads : ~InFlight(requests[u])]
                    IN  /\ fresh => uuids < MaxUuid
                        /\ uuids' = IF fresh THEN uuids + 1 ELSE uuids
                        /\ requests' =
                              [u \in Threads |->
                                  IF u = t THEN r
                                  ELSE IF InFlight(requests[u])
                                       THEN [requests[u] EXCEPT !.alone = FALSE]
                                       ELSE requests[u]]
                        /\ UNCHANGED <<app, CONVERSATIONS, keyOrder, file, started>>

\* line 87 (app 53): if session_id not in CONVERSATIONS
check_session(t) ==
    /\ requests[t].pc = "check"
    /\ MovesOn(t, [requests[t] EXCEPT
                     !.pc = IF session_known(CONVERSATIONS, requests[t].sid)
                            THEN AfterSession ELSE "create"])

\* line 88 (app 54-56): the assignment the test of line 87 led to
create_session(t) ==
    /\ requests[t].pc = "create"
    /\ LET conv == set_session(CONVERSATIONS, requests[t].sid, app)
       IN  Moves(t, [requests[t] EXCEPT !.pc = AfterSession,
                                        !.appended = @ \o conv[requests[t].sid]],
                 conv, set_session_order(keyOrder, requests[t].sid), file)

\* lines 91-116: top_k is clamped, retrieve returns or raises, the context
\* turn is appended if it gave snippets
retrieve_with(t, retrievals) ==
    /\ requests[t].pc = "retrieve"
    /\ \E r \in retrievals :
        LET called == [requests[t] EXCEPT !.retrieval = r, !.calls = <<"retrieve">>,
                                          !.k = clamp_top_k(requests[t].top_k)]
            conv == append_context(CONVERSATIONS, requests[t].sid, kb_hits_of(r))
        IN  IF retrieve_propagates(r)
            THEN MovesOn(t, [called EXCEPT !.pc = "done", !.status = 500,
                                           !.detail = <<"Internal Server Error">>])
            ELSE Moves(t, [called EXCEPT
                             !.pc = "user",
                             !.appended = @ \o NewTurns(CONVERSATIONS, conv,
                                                        requests[t].sid)],
                       conv, keyOrder, file)

\* line 119 (app 59): the user turn
append_user(t) ==
    /\ requests[t].pc = "user"
    /\ LET turn == Turn("user", Strip(requests[t].question))
       IN  Moves(t, [requests[t] EXCEPT !.pc = "llm", !.appended = Append(@, turn)],
                 AppendTurn(CONVERSATIONS, requests[t].sid, turn), keyOrder, file)

\* lines 122-131 (app 61-71): the LLM is called with the list as it is now;
\* it answers, or it raises and the request ends with status 500
call_llm_with(t, outcomes) ==
    /\ requests[t].pc = "llm"
    /\ \E l \in outcomes :
        LET called == [requests[t] EXCEPT
                         !.llm = l, !.calls = @ \o llm_calls(l),
                         !.messages = llm_messages(CONVERSATIONS, requests[t].sid)]
        IN  IF l.ok
            THEN MovesOn(t, [called EXCEPT !.pc = "answer"])
            ELSE Moves(t, [called EXCEPT !.pc = "done", !.status = 500,
                                         !.detail = llm_error_detail(l.text)],
                       CONVERSATIONS, keyOrder,
                       after_llm_error(file, CONVERSATIONS, keyOrder))

\* line 134 (app 74): the answer turn
append_answer(t) ==
    /\ requests[t].pc = "answer"
    /\ LET turn == Turn("assistant", requests[t].llm.text)
       IN  Moves(t, [requests[t] EXCEPT !.pc = "open", !.appended = Append(@, turn)],
                 AppendTurn(CONVERSATIONS, requests[t].sid, turn), keyOrder, file)

\* line 45: open(SESSIONS_FILE, "w")
open_file(t) ==
    /\ requests[t].pc = "open"
    /\ Moves(t, [requests[t] EXCEPT !.pc = "iter"], CONVERSATIONS, keyOrder,
             open_truncate)

\* line 46: json.dump starts to iterate over the mapping and notes its size
dump_begin(t) ==
    /\ requests[t].pc = "iter"
    /\ MovesOn(t, [requests[t] EXCEPT !.pc = "dump", !.used = Len(keyOrder),
                                      !.buf = <<>>])

\* line 46: the next key and its transcript, as it is now, are written to the buffer
dump_next(t) ==
    /\ requests[t].pc = "dump"
    /\ Len(keyOrder) = requests[t].used
    /\ Len(requests[t].buf) < requests[t].used
    /\ MovesOn(t, [requests[t] EXCEPT
                     !.buf = @ \o json_dump(CONVERSATIONS,
                                            <<keyOrder[Len(requests[t].buf) + 1]>>)])

\* line 46: every key is written; the document is closed
dump_end(t) ==
    /\ requests[t].pc = "dump"
    /\ Len(keyOrder) = requests[t].used
    /\ Len(requests[t].buf) = requests[t].used
    /\ MovesOn(t, [requests[t] EXCEPT !.pc = "close", !.whole = TRUE])

\* line 46: a key was added since the iteration began; the iterator raises
\* RuntimeError (dictionary changed size during iteration)
dump_raises(t) ==
    /\ requests[t].pc = "dump"
    /\ Len(keyOrder) # requests[t].used
    /\ MovesOn(t, [requests[t] EXCEPT !.pc = "close", !.whole = FALSE])

\* the order in which the threads left the with block
ClosedSoFar == Cardinality({u \in Threads : requests[u].closed > 0})

\* the response of an answered request: lines 136-137 (app 79)
response_citations(r) ==
    IF app = "main" THEN citations_payload(kb_hits_of(r.retrieval)) ELSE <<>>

\* lines 45-46, 136-137: the with block is left, the buffer is written; the
\* request returns its answer, or status 500 when the dump raised
close_file(t) ==
    /\ requests[t].pc = "close"
    /\ LET left == [requests[t] EXCEPT !.pc = "done", !.closed = ClosedSoFar + 1]
           f == close_flush(file, requests[t].buf, requests[t].whole)
       IN  IF requests[t].whole
           THEN Moves(t, [left EXCEPT !.status = 200,
                                      !.returned = Some(requests[t].sid),
                                      !.citations = response_citations(requests[t])],
                      CONVERSATIONS, keyOrder, f)
           ELSE Moves(t, [left EXCEPT !.status = 500,
                                      !.detail = <<"Internal Server Error">>],
                      CONVERSATIONS, keyOrder, f)

\* new-session creates the session in the mapping right away
new_session_registers ==
    /\ app = "main"
    /\ uuids < MaxUuid
    /\ uuids' = uuids + 1
    /\ CONVERSATIONS' = get_or_create(CONVERSATIONS, Uuid(uuids + 1), "main")
    /\ keyOrder' = get_or_create_order(CONVERSATIONS, keyOrder, Uuid(uuids + 1))
    /\ UNCHANGED <<app, file, requests, started>>

\* POST /api/new-session: lines 139-142 draw an identifier, Uuid(uuids'), and
\* return it; they touch neither the mapping nor the file
new_session ==
    /\ app = "main"
    /\ uuids < MaxUuid
    /\ uuids' = uuids + 1
    /\ UNCHANGED <<app, CONVERSATIONS, keyOrder, file, requests, started>>

\* the process stops, no request being served, and starts again: the module
\* reloads sessions.json (lines 37-42, app 25-30); json.load raises on a file
\* that is not one whole document, and the service does not come up
Restart ==
    /\ \A t \in Threads : ~InFlight(requests[t])
    /\ ~file.exists \/ Loadable(file)
    /\ CONVERSATIONS' = LoadConversations(file)
    /\ keyOrder' = LoadKeyOrder(file)
    /\ UNCHANGED <<app, file, uuids, requests, started>>

\* the steps of a request that take no input
serve(t) ==
    \/ check_session(t)
    \/ create_session(t)
    \/ append_user(t)
    \/ append_answer(t)
    \/ open_file(t)
    \/ dump_begin(t)
    \/ dump_next(t)
    \/ dump_end(t)
    \/ dump_raises(t)
    \/ close_file(t)

\* POST /api/chat (app: POST /chat) on the sessions s1 and s2, with top_k
\* left to its default
receive(t) == receive_with(t, Questions, {Some("s1"), Some("s2")}, {NoTopK})
retrieve_context(t) == retrieve_with(t, Retrievals)
call_llm(t) == call_llm_with(t, LlmOutcomes)

NextChat ==
    \/ Restart
    \/ \E t \in Threads :
        \/ receive(t)
        \/ retrieve_context(t)
        \/ call_llm(t)
        \/ serve(t)

\* the handler chat, called by two threads, and restarts between calls
SpecChat == Init /\ [][NextChat]_vars

\* the service with the imports of src/ as they stand: a program whose module
\* does not load registers no route, is sent no request and is not restarted
\* into anything else
Next == module_loads(app) /\ NextChat

Spec == Init /\ [][Next]_vars

\* POST /api/chat with every kind of session id, and POST /api/new-session;
\* retrieval finds nothing
receive_ids(t) == app = "main" /\ receive_with(t, {<<"b">>}, SessionIds, {NoTopK})
retrieve_nothing(t) == retrieve_with(t, {RetrieveList(<<>>)})

NextIds ==
    \/ new_session
    \/ Restart
    \/ \E t \in Threads :
        \/ receive_ids(t)
        \/ retrieve_nothing(t)
        \/ call_llm(t)
        \/ serve(t)

SpecIds == Init /\ [][NextIds]_vars

\* POST /api/chat with blank and non-blank questions on the sessions s1 and
\* s2, and POST /api/new-session; retrieval finds nothing
receive_store(t) ==
    receive_with(t, {<<" ", " ">>, <<" ", "a", " ">>}, {Some("s1"), Some("s2")}, {NoTopK})

NextStore ==
    \/ new_session
    \/ Restart
    \/ \E t \in Threads :
        \/ receive_store(t)
        \/ retrieve_nothing(t)
        \/ call_llm(t)
        \/ serve(t)

SpecStore == Init /\ [][NextStore]_vars

\* the session ids of two requests that arrive together: the same id, or two
ConcSessionIds(t) == IF t = 1 THEN {"s1"} ELSE {"s1", "s2"}

\* one request per thread on one session, over every top_k; retrieval finds
\* nothing and the LLM call raises, so that top_k is all that varies
receive_top_k(t) == app = "main" /\ receive_with(t, {<<"b">>}, {Some("s1")}, TopKs)
call_llm_top_k(t) == call_llm_with(t, {LlmRaises(<<"timeout">>)})

NextTopK ==
    \/ Restart
    \/ \E t \in Threads :
        \/ receive_top_k(t)
        \/ check_session(t)
        \/ create_session(t)
        \/ retrieve_nothing(t)
        \/ append_user(t)
        \/ call_llm_top_k(t)

SpecTopK == Init /\ [][NextTopK]_vars

\* one request per thread, on the same session or on another, whose retrieval
\* returns None or up to ManyHits snippets
receive_hits(t) ==
    app = "main"
        /\ receive_with(t, {<<"b">>}, {Some(i) : i \in ConcSessionIds(t)}, {NoTopK})
retrieve_hits(t) == retrieve_with(t, {RetrieveNone} \cup RetrievalsUpTo(ManyHits))

NextHits ==
    \/ Restart
    \/ \E t \in Threads :
        \/ receive_hits(t)
        \/ retrieve_hits(t)
        \/ call_llm(t)
        \/ serve(t)

SpecHits == Init /\ [][NextHits]_vars

-----------------------------------------------------------------------------
(* Two requests, one per thread, from a start with or without a stored session *)

\* the request thread t serves
ConcQuestion(t) == <<" ", "q" \o ToString(t)>>
ConcRetrievals == {RetrieveList(<<>>), RetrieveList(<<Hit(1)>>)}
ConcLlmOutcomes(t) == {LlmAnswer(<<"answer ", ToString(t)>>), LlmRaises(<<"timeout">>)}

\* the states in which the requests arrive: just started with no file, or
\* after an exchange on another session
StartStates(a) == {EmptyState, Earlier(a)}

InitConc == \E a \in {"main", "app"} : app = a /\ StartsFrom(StartStates(a))

receive_once(t) ==
    receive_with(t, {ConcQuestion(t)}, {Some(i) : i \in ConcSessionIds(t)}, {NoTopK})
retrieve_once(t) == retrieve_with(t, ConcRetrievals)
call_llm_once(t) == call_llm_with(t, ConcLlmOutcomes(t))

NextConc ==
    \E t \in Threads :
        \/ receive_once(t)
        \/ retrieve_once(t)
        \/ call_llm_once(t)
        \/ serve(t)

SpecConc == InitConc /\ [][NextConc]_vars

-----------------------------------------------------------------------------
(* Vocabulary of the properties *)

Roles(turns) == [i \in 1..Len(turns) |-> turns[i].role]

CountRole(turns, role) == Cardinality({i \in 1..Len(turns) : turns[i].role = role})

IsContextTurn(t) ==
    t.role = "assistant" /\ t.content # <<>> /\ t.content[1] = "CONTEXT:\n"

\* a question with nothing but whitespace in it
IsBlank(q) == \A i \in 1..Len(q) : q[i] \in {" ", "\t", "\n", "\r"}

\* retrieval handed the handler at least one snippet
GotSnippets(r) == r.kind = "list" /\ Len(r.hits) >= 1

\* the kinds of step: a thread's, a new-session request, a restart
ThreadStep == requests' # requests
NewSessionStep == requests' = requests /\ uuids' # uuids
RestartStep == requests' = requests /\ uuids' = uuids

\* steps of thread t: it receives a request; it returns a response; it
\* refuses a blank question; retrieve returns to it; it calls the LLM; the
\* LLM call raises; it returns an answer
Received(t) == requests[t].pc = "idle" /\ requests'[t].pc # "idle"
Returns(t) == requests[t].pc # "done" /\ requests'[t].pc = "done"
Rejects(t) == Received(t) /\ requests'[t].status = 400
RetrieveStep(t) == requests[t].pc = "retrieve" /\ requests'[t].pc # "retrieve"
LlmStep(t) == requests[t].pc = "llm" /\ requests'[t].pc # "llm"
LlmFails(t) == LlmStep(t) /\ requests'[t].pc = "done"
Answers(t) == Returns(t) /\ requests'[t].status = 200

\* a request that passed validation and has returned
Returned(r) == r.pc = "done" /\ r.status # 400

\* no request in flight has had another request served beside it
OneAtATime == \A t \in Threads : InFlight(requests[t]) => requests[t].alone

\* the turns a request appended after the system turn, if it created the session
Exchange(r) ==
    IF r.appended # <<>> /\ r.appended[1].role = "system"
    THEN Tail(r.appended) ELSE r.appended

\* the turns that carry the text of a request: its question, its answer
QuestionOf(r) == Turn("user", Strip(r.question))
AnswerOf(r) == Turn("assistant", r.llm.text)

\* the request of thread t was answered with no other request beside it, and
\* no request has been received since it returned (thread 1 receives first)
JustPersisted(t) ==
    /\ Returned(requests[t]) /\ requests[t].status = 200 /\ requests[t].alone
    /\ \A u \in Threads \ {t} :
          requests[u].pc = "idle" \/ (u < t /\ requests[u].pc = "done")

\* the file holds the transcript of sid up to and including its n-th turn
StoreReaches(f, sid, n) ==
    /\ Loadable(f)
    /\ sid \in DOMAIN LoadConversations(f)
    /\ Len(LoadConversations(f)[sid]) >= n

\* top_k clamped into [1,10]
Clamped(n) == IF n < 1 THEN 1 ELSE IF n > 10 THEN 10 ELSE n

-----------------------------------------------------------------------------
(* C1..C5 *)

\* C1: in every reachable state, whatever the interleaving of the requests,
\* every session of the mapping has a transcript whose first turn is the
\* fixed system turn and that holds exactly one turn of role system.
C1_SystemTurnFirstAndOnce ==
    \A sid \in DOMAIN CONVERSATIONS :
        LET t == CONVERSATIONS[sid]
        IN  /\ Len(t) >= 1
            /\ t[1] = SystemTurn(app)
            /\ CountRole(t, "system") = 1

\* C1 witness: a session that went through a failed and a later answered call
\* with retrieval hits, so that it holds several turns after the system turn
C1_Witness ==
    \E t \in Threads :
        /\ Returned(requests[t]) /\ requests[t].status = 200
        /\ GotSnippets(requests[t].retrieval)
        /\ Len(CONVERSATIONS[requests[t].sid]) = 5
        /\ CountRole(CONVERSATIONS[requests[t].sid], "user") = 2

\* C2: while chat calls run one at a time, every step of a call leaves every
\* existing session in the mapping with a transcript that extends its
\* previous one.
C2_AppendOnly ==
    [][(ThreadStep /\ OneAtATime) =>
        \A sid \in DOMAIN CONVERSATIONS :
            /\ sid \in DOMAIN CONVERSATIONS'
            /\ IsPrefix(CONVERSATIONS[sid], CONVERSATIONS'[sid])]_vars

\* C2 witness: a second exchange on a session, run with no other call beside
\* it, has extended the transcript the first one left
C2_Witness ==
    \E t \in Threads :
        /\ Returned(requests[t]) /\ requests[t].alone
        /\ requests[t].status = 200
        /\ Len(requests[t].before) >= 3
        /\ CountRole(CONVERSATIONS[requests[t].sid], "user") >= 2
        /\ CONVERSATIONS[requests[t].sid]
              = requests[t].before \o requests[t].appended

\* C3 as stated: after a chat call whose LLM call fails the outcome is a 500
\* whose detail contains the reason, the question is a new user turn, and the
\* call added no turn of role assistant, whatever retrieval returned.
C3_NoAssistantTurnAtAll ==
    [][\A t \in Threads : LlmFails(t) =>
        LET r == requests'[t]
        IN  /\ r.status = 500
            /\ Range(r.llm.text) \subseteq Range(r.detail)
            /\ r.appended # <<>>
            /\ r.appended[Len(r.appended)] = QuestionOf(r)
            /\ CountRole(r.appended, "assistant") = 0]_vars

\* C3 amended: after a chat call whose LLM call fails the outcome is a 500
\* whose detail contains the reason, the question is the last turn the call
\* appended, of role user, and the only turn of role assistant the call can
\* have appended is the context turn, appended exactly when retrieval
\* returned a snippet; the call appends no answer turn.  When no other call
\* ran beside it, the transcript is the one the session held, extended by
\* these turns, and ends with the question.
C3_NoAnswerTurn ==
    [][\A t \in Threads : LlmFails(t) =>
        LET r == requests'[t]
            own == Exchange(r)
        IN  /\ r.status = 500
            /\ Range(r.llm.text) \subseteq Range(r.detail)
            /\ own # <<>>
            /\ own[Len(own)] = QuestionOf(r)
            /\ CountRole(own, "assistant")
                  = (IF GotSnippets(r.retrieval) THEN 1 ELSE 0)
            /\ \A i \in 1..Len(own) :
                  own[i].role = "assistant" =>
                      IsContextTurn(own[i]) /\ i = Len(own) - 1
            /\ r.alone =>
                  /\ CONVERSATIONS'[r.sid] = r.before \o r.appended
                  /\ CONVERSATIONS'[r.sid][Len(CONVERSATIONS'[r.sid])] = QuestionOf(r)]_vars

\* C3 witness: a failed LLM call after a retrieval that returned a snippet
C3_Witness ==
    \E t \in Threads :
        /\ Returned(requests[t]) /\ requests[t].status = 500
        /\ "llm" \in Range(requests[t].calls) /\ ~requests[t].llm.ok
        /\ GotSnippets(requests[t].retrieval)
        /\ requests[t].alone
        /\ Len(CONVERSATIONS[requests[t].sid]) >= 3

\* C4: a chat call with an empty or whitespace-only question is answered 400
\* at once, makes no external call and leaves the mapping and the file as
\* they were; no other question is refused this way.
C4_BlankRejected ==
    [][\A t \in Threads :
        /\ (Received(t) /\ IsBlank(requests'[t].question)) =>
              /\ requests'[t].pc = "done"
              /\ requests'[t].status = 400
              /\ requests'[t].calls = <<>>
              /\ CONVERSATIONS' = CONVERSATIONS
              /\ DOMAIN CONVERSATIONS' = DOMAIN CONVERSATIONS
              /\ keyOrder' = keyOrder
              /\ file' = file
        /\ Rejects(t) => IsBlank(requests'[t].question)]_vars

\* C4 witness: a whitespace-only question rejected while sessions exist
C4_Witness ==
    \E t \in Threads :
        /\ requests[t].pc = "done" /\ requests[t].status = 400
        /\ requests[t].question = <<" ", " ">>
        /\ DOMAIN CONVERSATIONS # {}
        /\ file.exists

\* C5: an answered chat call appends, after the system turn of a session it
\* creates, 2 turns (user, assistant) without snippets and 3 (context, user,
\* assistant) with some.  When no other call ran beside it the transcript has
\* grown by exactly these turns: a new session holds 3 or 4 turns, and a
\* session that existed keeps the turns it held, followed by the new ones.
C5_GrowthPerExchange ==
    [][\A t \in Threads : Answers(t) =>
        LET r == requests'[t]
            own == Exchange(r)
            snippets == GotSnippets(r.retrieval)
            now == CONVERSATIONS'[r.sid]
        IN  /\ ~snippets => Roles(own) = <<"user", "assistant">>
            /\ snippets => Roles(own) = <<"assistant", "user", "assistant">>
                              /\ IsContextTurn(own[1])
            /\ r.alone =>
                  /\ now = r.before \o r.appended
                  /\ r.before = <<>> =>
                        /\ r.appended[1] = SystemTurn(app)
                        /\ Len(now) = (IF snippets THEN 4 ELSE 3)
                  /\ r.before # <<>> =>
                        /\ IsPrefix(r.before, now)
                        /\ Len(now) - Len(r.before) = (IF snippets THEN 3 ELSE 2)]_vars

\* C5 witness: an answered exchange with a snippet on a session that already
\* held an unanswered question, so that three turns extend a two-turn transcript
C5_Witness ==
    \E t \in Threads :
        /\ Returned(requests[t]) /\ requests[t].status = 200
        /\ requests[t].alone
        /\ GotSnippets(requests[t].retrieval)
        /\ Len(requests[t].before) = 2
        /\ Len(CONVERSATIONS[requests[t].sid]) = 5

-----------------------------------------------------------------------------
(* C6..C10 *)

\* C6: the count passed to the retriever is top_k clamped into [1,10] for
\* every integer top_k, and 5 when top_k is absent.
C6_CountIsClampedTopK ==
    \A t \in Threads :
        "retrieve" \in Range(requests[t].calls) =>
            requests[t].k = (IF requests[t].top_k.kind = "int"
                             THEN Clamped(requests[t].top_k.val) ELSE 5)

\* C7: when the retriever raises, the request goes on exactly as it does
\* after an empty retrieval result: nothing is appended, the LLM is called
\* next, no context turn is among the turns of the call, and on an answer the
\* response is a 200 with no citations.
C7_RetrieverFailsOpen ==
    [][\A t \in Threads :
        /\ (RetrieveStep(t) /\ requests'[t].retrieval = RetrieveRaises) =>
              /\ requests'[t].pc = "user"
              /\ requests'[t].appended = requests[t].appended
              /\ requests'[t].calls = <<"retrieve">>
              /\ CONVERSATIONS' = CONVERSATIONS
              /\ keyOrder' = keyOrder
              /\ file' = file
        /\ (Returns(t) /\ requests'[t].retrieval = RetrieveRaises) =>
              /\ requests'[t].calls = <<"retrieve", "llm">>
              /\ \A i \in 1..Len(requests'[t].appended) :
                    ~IsContextTurn(requests'[t].appended[i])
              /\ (requests'[t].llm.ok /\ requests'[t].whole) =>
                    requests'[t].status = 200 /\ requests'[t].citations = <<>>]_vars

\* C7 witness: an answered request whose retrieval raised
C7_Witness ==
    \E t \in Threads :
        /\ Returned(requests[t]) /\ requests[t].retrieval = RetrieveRaises
        /\ requests[t].calls = <<"retrieve", "llm">>
        /\ requests[t].status = 200 /\ requests[t].citations = <<>>
        /\ Len(CONVERSATIONS[requests[t].sid]) >= 3

\* C8: for chat calls run one at a time, right after a call returned its
\* answer the file is the one text that a dump of the whole mapping, as it
\* is in memory, writes to an empty file; json.load accepts it and gives the
\* same sessions with the same transcripts, the keys in the same order.  A
\* restart after such a call, before any other request, leaves the mapping
\* and its key order as they were.
C8_PersistRoundTrip ==
    [][/\ \A t \in Threads : (Answers(t) /\ requests[t].alone) =>
            /\ file' = save_sessions(CONVERSATIONS', keyOrder')
            /\ Loadable(file')
            /\ LoadConversations(file') = CONVERSATIONS'
            /\ LoadKeyOrder(file') = keyOrder'
       /\ (RestartStep /\ \E t \in Threads : JustPersisted(t)) =>
            /\ CONVERSATIONS' = CONVERSATIONS
            /\ keyOrder' = keyOrder]_vars

\* C8 witness: an answered call, run with no other beside it and after a
\* call whose LLM call failed on another session, has written a file from
\* which a restart is possible: two sessions, one of them ending with the
\* unanswered question, and system turns whose newlines are written as escapes
C8_Witness ==
    \E t \in Threads :
        /\ JustPersisted(t)
        /\ Loadable(file) /\ Len(file_doc(file)) >= 2
        /\ LoadConversations(file) = CONVERSATIONS
        /\ \E u \in Threads \ {t} :
              /\ Returned(requests[u]) /\ ~requests[u].llm.ok
              /\ requests[u].sid # requests[t].sid
              /\ LET turns == CONVERSATIONS[requests[u].sid]
                 IN  turns[Len(turns)] = QuestionOf(requests[u])
        /\ \/ app = "app"
           \/ \E sid \in DOMAIN CONVERSATIONS :
                 /\ "\n" \in Range(CONVERSATIONS[sid][1].content)
                 /\ "\\n" \in Range(Member(Member(file_doc(file), sid)[1], "content"))

\* C9 as stated: an answered chat call of src/main.py returns the supplied
\* session id whenever one is supplied, and otherwise a newly generated id
\* that was no key of the mapping; the returned id keys the transcript that
\* received the call's turns.
C9_SuppliedIdEchoed ==
    [][\A t \in Threads : (app = "main" /\ Answers(t)) =>
        LET r == requests'[t]
        IN  /\ r.session_id # None => r.returned = r.session_id
            /\ r.returned = Some(r.sid)]_vars

\* C9 amended: a chat call of src/main.py is served under the supplied
\* session id when a non-empty one is supplied, and otherwise (none, or the
\* empty string) under a newly generated id that is no key of the mapping
\* and was issued to nobody; an answered call returns the id it was served
\* under, its question and answer are the last turns it appended, and a step
\* of a call changes no transcript but the one under its id.
C9_NonEmptyIdEchoed ==
    [][/\ \A t \in Threads :
            /\ (app = "main" /\ Received(t) /\ ~Rejects(t)) =>
                  LET r == requests'[t]
                      given == r.session_id # None /\ r.session_id # Some("")
                  IN  /\ given => r.sid = r.session_id[1]
                      /\ ~given => r.sid \notin DOMAIN CONVERSATIONS \cup KnownIds
            /\ (app = "main" /\ Answers(t)) =>
                  LET r == requests'[t]
                      n == Len(r.appended)
                  IN  /\ r.returned = Some(r.sid)
                      /\ r.sid \in DOMAIN CONVERSATIONS'
                      /\ n >= 2
                      /\ r.appended[n - 1] = QuestionOf(r)
                      /\ r.appended[n] = AnswerOf(r)
       /\ ThreadStep =>
            \A sid \in DOMAIN CONVERSATIONS' :
                CONVERSATIONS'[sid] # TranscriptOf(CONVERSATIONS, sid) =>
                    \E t \in Threads :
                        /\ InFlight(requests[t])
                        /\ requests[t].sid = sid
                        /\ requests'[t] # requests[t]]_vars

\* C9 witness: an answered call that sent the empty string as its session id
\* and was given a new one
C9_Witness ==
    \E t \in Threads :
        /\ app = "main"
        /\ Returned(requests[t]) /\ requests[t].status = 200
        /\ requests[t].session_id = Some("")
        /\ requests[t].returned = Some(Uuid(1))
        /\ Uuid(1) \in DOMAIN CONVERSATIONS

\* C10: new-session changes neither the mapping nor the file, and the id it
\* returns is no key of the mapping and was issued to nobody; a key enters
\* the mapping only by the step of a chat call served under it.
C10_NewSessionIsPure ==
    [][/\ NewSessionStep =>
            /\ CONVERSATIONS' = CONVERSATIONS
            /\ keyOrder' = keyOrder
            /\ file' = file
            /\ uuids' = uuids + 1
            /\ Uuid(uuids') \notin DOMAIN CONVERSATIONS'
            /\ Uuid(uuids') \notin KnownIds
       /\ ~RestartStep =>
            \A sid \in DOMAIN CONVERSATIONS' \ DOMAIN CONVERSATIONS :
                \E t \in Threads :
                    /\ requests[t].pc = "create"
                    /\ requests[t].sid = sid
                    /\ requests'[t].pc # "create"]_vars

\* C10 witness: new-session answered while the mapping and the file hold a
\* session; the id it returned is in neither and no call is served under it
C10_Witness ==
    /\ uuids >= 1
    /\ \A t \in Threads : requests[t].sid # Uuid(uuids)
    /\ DOMAIN CONVERSATIONS # {}
    /\ Loadable(file) /\ file_doc(file) # <<>>
    /\ Uuid(uuids) \notin DOMAIN CONVERSATIONS
    /\ Uuid(uuids) \notin DOMAIN LoadConversations(file)

-----------------------------------------------------------------------------
(* C11, C13..C16 *)

\* C11: a chat request of src/main.py with a non-blank question calls the
\* retriever once and then the LLM once, whatever either returns or raises,
\* and makes no other external call.
C11_EachCallOnceInOrder ==
    \A t \in Threads :
        (app = "main" /\ ~IsBlank(requests[t].question)) =>
            /\ IsPrefix(requests[t].calls, <<"retrieve", "llm">>)
            /\ requests[t].pc \in {"check", "create", "retrieve"}
                  <=> requests[t].calls = <<>>
            /\ requests[t].pc \in {"user", "llm"}
                  <=> requests[t].calls = <<"retrieve">>
            /\ requests[t].pc = "done" =>
                  /\ requests[t].calls = <<"retrieve", "llm">>
                  /\ requests[t].k \in 1..10
                  /\ requests[t].messages # <<>>

\* C11 witness: a request whose retrieval raised and whose LLM call raised too
C11_Witness ==
    \E t \in Threads :
        /\ app = "main" /\ Returned(requests[t])
        /\ requests[t].retrieval = RetrieveRaises
        /\ ~requests[t].llm.ok /\ requests[t].status = 500
        /\ requests[t].calls = <<"retrieve", "llm">>

\* C13: the messages handed to the LLM are the session's whole transcript at
\* that moment, the system turn first.  When no other call ran beside this
\* one they are the turns the session held, in their order, followed by the
\* turns of the call: the new question last, and the context turn right
\* before it when retrieval returned snippets.
C13_MessagesAreTranscript ==
    [][\A t \in Threads : LlmStep(t) =>
        LET r == requests'[t]
            sent == r.messages
            n == Len(sent)
        IN  /\ sent = CONVERSATIONS[r.sid]
            /\ n >= 1
            /\ sent[1] = SystemTurn(app)
            /\ r.alone =>
                  /\ n >= 2
                  /\ sent = r.before \o r.appended
                  /\ IsPrefix(r.before, sent)
                  /\ sent[n] = QuestionOf(r)
                  /\ GotSnippets(r.retrieval) =>
                        /\ IsContextTurn(sent[n - 1])
                        /\ n - 1 > Len(r.before)
                  /\ ~GotSnippets(r.retrieval) =>
                        n = Max(Len(r.before), 1) + 1]_vars

\* C13 witness: a request with a snippet on a session that already held an
\* exchange, so that history, context turn and question were all sent
C13_Witness ==
    \E t \in Threads :
        /\ Returned(requests[t]) /\ requests[t].alone
        /\ GotSnippets(requests[t].retrieval)
        /\ Len(requests[t].messages) = 5
        /\ requests[t].messages[2].role = "user"
        /\ IsContextTurn(requests[t].messages[4])

\* C14: a chat call appends a context turn exactly when retrieval returned a
\* snippet, one turn however many snippets, and an answered call returns one
\* citation per snippet, whose id is the snippet's rank counted from 1, in
\* rank order.
C14_OneContextTurnRankedCitations ==
    [][\A t \in Threads : (Returns(t) /\ ~Rejects(t)) =>
        LET r == requests'[t]
            hits == r.retrieval.hits
            contexts == {i \in 1..Len(r.appended) : IsContextTurn(r.appended[i])}
        IN  /\ Cardinality(contexts) = (IF GotSnippets(r.retrieval) THEN 1 ELSE 0)
            /\ r.status = 200 =>
                  /\ Len(r.citations) = Len(hits)
                  /\ \A i \in 1..Len(hits) :
                        /\ r.citations[i].id = ToString(i)
                        /\ r.citations[i].source
                              = Get(hits[i], "source", "knowledge_base")]_vars

\* C14 witness: an answered call whose retrieval returned ManyHits snippets
C14_Witness ==
    \E t \in Threads :
        /\ Returned(requests[t]) /\ requests[t].status = 200
        /\ Len(requests[t].retrieval.hits) = ManyHits
        /\ Len(requests[t].citations) = ManyHits
        /\ requests[t].citations[ManyHits].id = ToString(ManyHits)

\* C15: the file is written only by chat calls that succeed: a step that
\* changes the file is the opening or the closing of the file by a call that,
\* when it returns, returns 200; a rejected call, a call whose LLM call raised
\* and new-session leave the file as it was; after a call whose LLM call
\* raised, made with no other call beside it, the file does not hold the
\* question the call appended.
C15_StoreWrittenOnSuccessOnly ==
    [][/\ file' # file =>
            \E t \in Threads :
                /\ requests[t].pc \in {"open", "close"}
                /\ requests'[t].pc # requests[t].pc
                /\ Returns(t) => requests'[t].status = 200
       /\ NewSessionStep => file' = file
       /\ \A t \in Threads :
            /\ (Rejects(t) \/ LlmFails(t)) => file' = file
            /\ (LlmFails(t) /\ requests[t].alone) =>
                  ~StoreReaches(file', requests[t].sid,
                                Len(CONVERSATIONS'[requests[t].sid]))]_vars

\* C16: a restart keeps every turn that was in memory: each session is still
\* in the mapping and its transcript extends the one held before.
C16_RestartKeepsEveryTurn ==
    [][RestartStep =>
        \A sid \in DOMAIN CONVERSATIONS :
            /\ sid \in DOMAIN CONVERSATIONS'
            /\ IsPrefix(CONVERSATIONS[sid], CONVERSATIONS'[sid])]_vars

-----------------------------------------------------------------------------
(* C12, C17, C18: two requests served side by side *)

\* every thread has returned its response
AllReturned == \A t \in Threads : requests[t].pc = "done"

\* the state and response the request of thread t leaves when it is the only
\* request served from the state the requests arrived in
Alone(t) ==
    IF app = "main"
    THEN chat_outcome(started, requests[t].question, Some(requests[t].sid), NoTopK,
                      requests[t].retrieval, requests[t].llm)
    ELSE app_chat_outcome(started, requests[t].question, requests[t].sid,
                          requests[t].llm)

\* the turns that carry the text of thread t's request: its question, its answer
QuestionTurn(t) == QuestionOf(requests[t])
AnswerTurn(t) == AnswerOf(requests[t])

\* C12: when two chat calls on different sessions have run side by side, each
\* session's transcript is the one its call leaves when run alone, and holds
\* neither the question nor the answer of the other call.
C12_DifferentSessionsIndependent ==
    (AllReturned /\ requests[1].sid # requests[2].sid) =>
        \A t \in Threads : \A u \in Threads \ {t} :
            /\ requests[t].sid \in DOMAIN CONVERSATIONS
            /\ CONVERSATIONS[requests[t].sid] = Alone(t).conv[requests[t].sid]
            /\ QuestionTurn(u) \notin Range(CONVERSATIONS[requests[t].sid])
            /\ AnswerTurn(u) \notin Range(CONVERSATIONS[requests[t].sid])

\* C12 witness: two answered calls on different sessions whose steps
\* overlapped, thread 1 having created its session while thread 2 was
\* writing the mapping out
C12_Witness ==
    /\ AllReturned /\ requests[1].sid # requests[2].sid
    /\ requests[1].llm.ok /\ requests[2].llm.ok
    /\ requests[2].closed > 0 /\ ~requests[2].whole
    /\ requests[1].status = 200
    /\ Len(CONVERSATIONS[requests[1].sid]) >= 3
    /\ Len(CONVERSATIONS[requests[2].sid]) >= 3

\* C17: when two chat calls on the same session id, unused until then, have
\* both returned successfully, the session's transcript holds one system
\* turn, both questions and both answers.
C17_SharedNewSessionKeepsEveryTurn ==
    (/\ AllReturned
     /\ \A t \in Threads : requests[t].status = 200
     /\ requests[1].sid = requests[2].sid
     /\ requests[1].sid \notin DOMAIN started.conv) =>
        LET transcript == CONVERSATIONS[requests[1].sid]
        IN  /\ CountRole(transcript, "system") = 1
            /\ \A t \in Threads :
                  /\ QuestionTurn(t) \in Range(transcript)
                  /\ AnswerTurn(t) \in Range(transcript)

\* C18: when the calls have returned and each has persisted the mapping, the
\* file is the document written by the persist that was completed last, and
\* nothing else.
C18_LastCompletedWriteWins ==
    (AllReturned /\ \A t \in Threads : requests[t].status = 200) =>
        \E t \in Threads :
            /\ requests[t].closed = Cardinality(Threads)
            /\ file = close_flush(open_truncate, requests[t].buf, TRUE)

====
